---- MODULE Spec2Model ----
(***************************************************************************)
(* Polygon Area Mapper: the UTM zone selection, projection, shoelace area  *)
(* and area-normalising rescale of app/utils/projection.ts, and the        *)
(* polygon list kept by the Map component (handlePolygonComplete,          *)
(* handleDragEnd, handleClearAll).                                          *)
(*                                                                         *)
(* Numbers.  The program computes in IEEE doubles; the model computes in   *)
(* fixed point, rounding to the nearest grid value where a double rounds   *)
(* to the nearest representable value:                                     *)
(*   - geographic coordinates are integers in millidegrees;                *)
(*   - planar (UTM) coordinates are integers in units of 100 m;            *)
(*   - areas are integers in units of (100 m)^2;                           *)
(*   - the scale factor is an integer in units of 1/SF.                    *)
(* Positions are pairs <<lat, lon>> as in the program ([lat, lon]); planar *)
(* points are pairs <<x, y>>.                                              *)
(***************************************************************************)
EXTENDS Integers, Sequences, FiniteSets, TLC

VARIABLES polygons, nextId, isDrawing, selectedPolygon, tempPoints,
          edits, last, fnIn, fnOut

vars == <<polygons, nextId, isDrawing, selectedPolygon, tempPoints,
          edits, last, fnIn, fnOut>>

appVars == <<polygons, nextId, isDrawing, selectedPolygon, tempPoints, edits, last>>

fnVars == <<fnIn, fnOut>>

(***************************************************************************)
(* Fixed-point arithmetic                                                  *)
(***************************************************************************)

\* millidegrees per degree
Deg == 10 * 100

\* the scale factor's denominator
SF == 100 * 100

\* the largest value the normalised radicand of Sqrt may take
MaxRadicand == 32768 * 32768

Abs(x) == IF x < 0 THEN -x ELSE x

\* a / b rounded to the nearest integer (b > 0), halves up
RoundDiv(a, b) == (2 * a + b) \div (2 * b)

RECURSIVE SqrtIter(_, _, _)
SqrtIter(n, lo, hi) ==
  IF lo >= hi THEN lo
  ELSE LET mid == (lo + hi + 1) \div 2
       IN IF mid * mid <= n THEN SqrtIter(n, mid, hi) ELSE SqrtIter(n, lo, mid - 1)

\* floor of the square root of n, 0 <= n <= MaxRadicand
ISqrt(n) == SqrtIter(n, 0, 32768)

RECURSIVE Normalise(_, _)
\* the largest power of 4 that keeps a * m within MaxRadicand: the exponent of the
\* double, which lets Math.sqrt keep its relative precision over all magnitudes
Normalise(a, m) == IF a * m <= MaxRadicand \div 4 THEN Normalise(a, m * 4) ELSE m

(***************************************************************************)
(* Zone selection (projection.ts, getUTMZone)                              *)
(***************************************************************************)

\* getUTMZone with Math.round in place of Math.floor
getUTMZone_Rounded(lon, lat) ==
  [zone |-> RoundDiv(lon + 180 * Deg, 6 * Deg) + 1, isNorth |-> lat >= 0]

getUTMZone(lon, lat) ==
  [zone |-> ((lon + 180 * Deg) \div (6 * Deg)) + 1, isNorth |-> lat >= 0]

(***************************************************************************)
(* Projection (projection.ts, getUTMProj / reprojectToUTM /                *)
(* reprojectFromUTM).  The program hands the proj string                   *)
(* "+proj=utm +zone=Z +north|south +datum=WGS84 +units=m" to proj4.  The   *)
(* model keeps what that string fixes: the zone's central meridian, the    *)
(* false easting of 500 km, the false northing of 10 000 km in the south,  *)
(* and a transverse-Mercator mapping reduced to its leading term,          *)
(*     x = FE + R * (lon - lon0) * cos(lat),   y = FN + R * lat,           *)
(* with R * 90 degrees = 10 000 km.  The mapping is not linear in          *)
(* (lon, lat): meridians converge, so the projection of a mean is not the  *)
(* mean of the projections, and the straight-edged planar polygon of the   *)
(* same vertices has a different area in a different zone.                 *)
(***************************************************************************)

\* 500 000 m in units of 100 m
FalseEasting == 5000

\* 10 000 000 m in units of 100 m
FalseNorthing == 100000

\* 100000 * cos(d degrees), d = 0 .. 90
CosTable ==
  << 100000, 99985, 99939, 99863, 99756, 99619, 99452, 99255,
     99027, 98769, 98481, 98163, 97815, 97437, 97030, 96593,
     96126, 95630, 95106, 94552, 93969, 93358, 92718, 92050,
     91355, 90631, 89879, 89101, 88295, 87462, 86603, 85717,
     84805, 83867, 82904, 81915, 80902, 79864, 78801, 77715,
     76604, 75471, 74314, 73135, 71934, 70711, 69466, 68200,
     66913, 65606, 64279, 62932, 61566, 60182, 58779, 57358,
     55919, 54464, 52992, 51504, 50000, 48481, 46947, 45399,
     43837, 42262, 40674, 39073, 37461, 35837, 34202, 32557,
     30902, 29237, 27564, 25882, 24192, 22495, 20791, 19081,
     17365, 15643, 13917, 12187, 10453, 8716, 6976, 5234,
     3490, 1745, 0 >>

\* 100000 * cos(lat), linear between whole degrees; |lat| < 90 degrees
Cos(lat) ==
  LET a == Abs(lat)
      d == a \div Deg
      r == a % Deg
  IN CosTable[d + 1] - RoundDiv((CosTable[d + 1] - CosTable[d + 2]) * r, Deg)

\* what getUTMProj's string fixes: central meridian and false northing
getUTMProj(zone, isNorth) ==
  [lon0 |-> (zone * 6 - 183) * Deg, y0 |-> IF isNorth THEN 0 ELSE FalseNorthing]

reprojectToUTM(lon, lat, zone, isNorth) ==
  LET utmProj == getUTMProj(zone, isNorth)
  IN << FalseEasting + RoundDiv((lon - utmProj.lon0) * Cos(lat), 90000),
        utmProj.y0 + RoundDiv(lat * 10, 9) >>

\* returns <<lon, lat>>
reprojectFromUTM(x, y, zone, isNorth) ==
  LET utmProj == getUTMProj(zone, isNorth)
      lat == RoundDiv((y - utmProj.y0) * 9, 10)
  IN << utmProj.lon0 + RoundDiv((x - FalseEasting) * 90000, Cos(lat)), lat >>

(***************************************************************************)
(* Polygon geometry (projection.ts)                                        *)
(***************************************************************************)

RECURSIVE SumOf(_, _)
SumOf(s, k) == IF s = <<>> THEN 0 ELSE Head(s)[k] + SumOf(Tail(s), k)

\* positions is not empty (0 / 0 is NaN in the program, see AdjustThrows)
calculateCentroid(positions) ==
  << RoundDiv(SumOf(positions, 1), Len(positions)),
     RoundDiv(SumOf(positions, 2), Len(positions)) >>

RECURSIVE ShoelaceLoop(_, _, _)
\* the loop of shoelaceArea from index i (1-based), with the running sum
ShoelaceLoop(coords, i, area) ==
  IF i > Len(coords) THEN area
  ELSE LET j == (i % Len(coords)) + 1
       IN ShoelaceLoop(coords, i + 1,
            (area + coords[i][1] * coords[j][2]) - coords[j][1] * coords[i][2])

shoelaceArea(coords) == Abs(ShoelaceLoop(coords, 1, 0)) \div 2

calculateAreaFromUTM(utmPositions) == shoelaceArea(utmPositions)

(***************************************************************************)
(* Area normaliser (projection.ts, adjustPolygonToArea)                    *)
(***************************************************************************)

Max(a, b) == IF a >= b THEN a ELSE b

\* scaleFactorOf with the quotient inverted: Math.sqrt(currentArea / targetArea)
scaleFactorOf_Inverted(targetArea, currentArea) ==
  IF targetArea = 0 THEN 0
  ELSE LET m == Normalise(Max(targetArea, currentArea), 1)
       IN RoundDiv(ISqrt(currentArea * m) * SF, ISqrt(targetArea * m))

\* Math.sqrt(targetArea / currentArea) in units of 1/SF; targetArea >= 0 < currentArea
scaleFactorOf(targetArea, currentArea) ==
  LET m == Normalise(Max(targetArea, currentArea), 1)
  IN RoundDiv(ISqrt(targetArea * m) * SF, ISqrt(currentArea * m))

\* lines 88-95: every planar vertex scaled about centroidUTM
scaledUTMOf(utmPositions, centroidUTM, scaleFactor) ==
  [i \in 1..Len(utmPositions) |->
     LET dx == utmPositions[i][1] - centroidUTM[1]
         dy == utmPositions[i][2] - centroidUTM[2]
     IN << centroidUTM[1] + RoundDiv(dx * scaleFactor, SF),
           centroidUTM[2] + RoundDiv(dy * scaleFactor, SF) >>]

\* lines 80-95, the planar part of adjustPolygonToArea: the planar vertices
\* unchanged when their area is <= 0, scaled about centroidUTM otherwise
scalePlanar(utmPositions, centroidUTM, targetArea) ==
  LET currentArea == calculateAreaFromUTM(utmPositions)
  IN IF currentArea <= 0 THEN utmPositions
     ELSE scaledUTMOf(utmPositions, centroidUTM, scaleFactorOf(targetArea, currentArea))

toUTMPositions(positions, zone, isNorth) ==
  [i \in 1..Len(positions) |->
     reprojectToUTM(positions[i][2], positions[i][1], zone, isNorth)]

\* proj4 rejects a coordinate that is not finite with a TypeError.  The centroid
\* of no positions is 0 / 0 = NaN (line 47) and is projected at line 74; the
\* square root of a negative quotient is NaN (line 86) and the scaled vertices
\* are projected back at line 98.
adjustThrows(positions, targetArea, zone, isNorth) ==
  \/ Len(positions) = 0
  \/ /\ calculateAreaFromUTM(toUTMPositions(positions, zone, isNorth)) > 0
     /\ targetArea < 0

\* adjustPolygonToArea without the early return: a list of area <= 0 is scaled by
\* 0 and every vertex lands on the centroid
adjustPolygonToArea_DegenerateScaled(positions, targetArea, zone, isNorth) ==
  LET centroid == calculateCentroid(positions)
      centroidUTM == reprojectToUTM(centroid[2], centroid[1], zone, isNorth)
      utmPositions == toUTMPositions(positions, zone, isNorth)
      currentArea == calculateAreaFromUTM(utmPositions)
      scaledUTM == IF currentArea <= 0 THEN scaledUTMOf(utmPositions, centroidUTM, 0)
                   ELSE scalePlanar(utmPositions, centroidUTM, targetArea)
  IN [i \in 1..Len(scaledUTM) |->
        LET ll == reprojectFromUTM(scaledUTM[i][1], scaledUTM[i][2], zone, isNorth)
        IN << ll[2], ll[1] >>]

\* adjustPolygonToArea returning the scaled vertices last to first
adjustPolygonToArea_Reversed(positions, targetArea, zone, isNorth) ==
  LET centroid == calculateCentroid(positions)
      centroidUTM == reprojectToUTM(centroid[2], centroid[1], zone, isNorth)
      utmPositions == toUTMPositions(positions, zone, isNorth)
      currentArea == calculateAreaFromUTM(utmPositions)
  IN IF currentArea <= 0 THEN positions
     ELSE LET scaledUTM == scalePlanar(utmPositions, centroidUTM, targetArea)
              n == Len(scaledUTM)
          IN [i \in 1..n |->
                LET ll == reprojectFromUTM(scaledUTM[n + 1 - i][1], scaledUTM[n + 1 - i][2],
                                           zone, isNorth)
                IN << ll[2], ll[1] >>]

\* the value returned when adjustThrows is false
adjustPolygonToArea(positions, targetArea, zone, isNorth) ==
  LET centroid == calculateCentroid(positions)
      centroidUTM == reprojectToUTM(centroid[2], centroid[1], zone, isNorth)
      utmPositions == toUTMPositions(positions, zone, isNorth)
      currentArea == calculateAreaFromUTM(utmPositions)
  IN IF currentArea <= 0 THEN positions
     ELSE LET scaledUTM == scalePlanar(utmPositions, centroidUTM, targetArea)
          IN [i \in 1..Len(scaledUTM) |->
                LET ll == reprojectFromUTM(scaledUTM[i][1], scaledUTM[i][2], zone, isNorth)
                IN << ll[2], ll[1] >>]

(***************************************************************************)
(* The Map component: the polygon list and its handlers                    *)
(***************************************************************************)

\* the most clicks handled while drawing (three clicks make a polygon)
MaxClicks == 6

\* the clicks handled so far: three for every polygon created, and the pending ones
clicksHandled == 3 * (nextId - 1) + Len(tempPoints)

\* the most drag-end events handled
MaxEdits == 2

\* selectedPolygon = null
Null == [id |-> 0, positions |-> <<>>, originalArea |-> 0, utmZone |-> 0, isNorth |-> FALSE]

\* last = no drag-end was the last event
NoDrag == [op |-> "none", id |-> 0, newPositions |-> <<>>]

\* where the user clicks while drawing: <<lat, lon>> in millidegrees
ClickPoints == { <<45000, 5000>>, <<52000, 0>>, <<40000, 13000>> }

\* how far a drag moves a polygon: <<dlat, dlon>> in millidegrees
DragOffsets == { <<10000, 0>>, <<0, -1000>> }

\* the positions a drag-end reports for an id that is no longer in the list
StrayPositions == << <<1000, 1000>>, <<3000, 1000>>, <<1000, 4000>> >>

Translate(positions, off) ==
  [i \in 1..Len(positions) |-> << positions[i][1] + off[1], positions[i][2] + off[2] >>]

\* polygons.find(p => p.id === id): the index of the first match, 0 if none
FindIndex(list, id) ==
  IF \E i \in 1..Len(list) : list[i].id = id
  THEN CHOOSE i \in 1..Len(list) :
         /\ list[i].id = id
         /\ \A j \in 1..(i - 1) : list[j].id # id
  ELSE 0

handlePolygonComplete(positions) ==
  LET centroid == calculateCentroid(positions)
      z == getUTMZone(centroid[2], centroid[1])
      utmPositions == toUTMPositions(positions, z.zone, z.isNorth)
      area == calculateAreaFromUTM(utmPositions)
      newPolygon == [id |-> nextId, positions |-> positions, originalArea |-> area,
                     utmZone |-> z.zone, isNorth |-> z.isNorth]
  IN /\ polygons' = Append(polygons, newPolygon)
     /\ nextId' = nextId + 1
     /\ isDrawing' = FALSE
     /\ selectedPolygon' = newPolygon

\* draggedPolygons storing the area of the dragged positions as the new
\* originalArea
draggedPolygons_AreaRefreshed(list, id, newPositions) ==
  LET polygon == list[FindIndex(list, id)]
      newCentroid == calculateCentroid(newPositions)
      z == getUTMZone(newCentroid[2], newCentroid[1])
      area == calculateAreaFromUTM(toUTMPositions(newPositions, z.zone, z.isNorth))
      updatedPolygon == [polygon EXCEPT !.positions = newPositions, !.originalArea = area,
                                        !.utmZone = z.zone, !.isNorth = z.isNorth]
  IN [i \in 1..Len(list) |-> IF list[i].id = id THEN updatedPolygon ELSE list[i]]

\* draggedPolygons without the test p.id === id: every record is replaced
draggedPolygons_AllUpdated(list, id, newPositions) ==
  LET polygon == list[FindIndex(list, id)]
      newCentroid == calculateCentroid(newPositions)
      z == getUTMZone(newCentroid[2], newCentroid[1])
      adjustedPositions == adjustPolygonToArea(newPositions, polygon.originalArea,
                                               z.zone, z.isNorth)
      updatedPolygon == [polygon EXCEPT !.positions = adjustedPositions,
                                        !.utmZone = z.zone, !.isNorth = z.isNorth]
  IN [i \in 1..Len(list) |-> updatedPolygon]

\* the polygon list after handleDragEnd(id, newPositions), id in the list
draggedPolygons(list, id, newPositions) ==
  LET polygon == list[FindIndex(list, id)]
      newCentroid == calculateCentroid(newPositions)
      z == getUTMZone(newCentroid[2], newCentroid[1])
      adjustedPositions == adjustPolygonToArea(newPositions, polygon.originalArea,
                                               z.zone, z.isNorth)
      updatedPolygon == [polygon EXCEPT !.positions = adjustedPositions,
                                        !.utmZone = z.zone, !.isNorth = z.isNorth]
  IN [i \in 1..Len(list) |-> IF list[i].id = id THEN updatedPolygon ELSE list[i]]

handleDragEnd(id, newPositions) ==
  IF FindIndex(polygons, id) = 0
  THEN UNCHANGED <<polygons, selectedPolygon>>
  ELSE /\ polygons' = draggedPolygons(polygons, id, newPositions)
       /\ selectedPolygon' = polygons'[FindIndex(polygons, id)]

handleClearAll ==
  /\ polygons' = <<>>
  /\ selectedPolygon' = Null

\* the button: setIsDrawing(!isDrawing)
ToggleDrawing ==
  /\ isDrawing' = ~isDrawing
  /\ last' = NoDrag
  /\ UNCHANGED <<polygons, nextId, selectedPolygon, tempPoints, edits, fnVars>>

\* DrawingHandler's click on the map while drawing
Click(point) ==
  /\ isDrawing
  /\ clicksHandled < MaxClicks
  /\ LET newPoints == Append(tempPoints, point)
     IN IF Len(newPoints) >= 3
        THEN /\ handlePolygonComplete(newPoints)
             /\ tempPoints' = <<>>
        ELSE /\ tempPoints' = newPoints
             /\ UNCHANGED <<polygons, nextId, isDrawing, selectedPolygon>>
  /\ last' = NoDrag
  /\ UNCHANGED <<edits, fnVars>>

\* DraggablePolygon's dragend: the polygon with this id, moved by off
DragEnd(id, off) ==
  /\ edits < MaxEdits
  /\ LET k == FindIndex(polygons, id)
         newPositions == IF k = 0 THEN StrayPositions
                         ELSE Translate(polygons[k].positions, off)
     IN /\ handleDragEnd(id, newPositions)
        /\ last' = [op |-> "dragEnd", id |-> id, newPositions |-> newPositions]
  /\ edits' = edits + 1
  /\ UNCHANGED <<nextId, isDrawing, tempPoints, fnVars>>

ClearAll ==
  /\ handleClearAll
  /\ last' = NoDrag
  /\ UNCHANGED <<nextId, isDrawing, tempPoints, edits, fnVars>>

\* fnIn, fnOut while the component runs
FnIdle == [op |-> "none"]

FnNotDone == [done |-> FALSE]

Init ==
  /\ polygons = <<>>
  /\ isDrawing = FALSE
  /\ nextId = 1
  /\ selectedPolygon = Null
  /\ tempPoints = <<>>
  /\ edits = 0
  /\ last = NoDrag
  /\ fnIn = FnIdle
  /\ fnOut = FnNotDone

Next ==
  \/ ToggleDrawing
  \/ \E point \in ClickPoints : Click(point)
  \/ \E id \in 1..nextId, off \in DragOffsets : DragEnd(id, off)
  \/ ClearAll

Spec == Init /\ [][Next]_vars

(***************************************************************************)
(* The functions of projection.ts called on their own: fnIn is the call,   *)
(* fnOut its outcome.                                                      *)
(***************************************************************************)

\* longitudes in millidegrees: both sides of every zone boundary from -180 to
\* 180 degrees, both ends included, and London's -0.09
ZoneLons ==
  ({ k * 6 * Deg + d : k \in -30..30, d \in {-1, 0} } \ { -180 * Deg - 1 }) \cup { -90 }

\* latitudes in millidegrees: either side of the equator, the equator, London
ZoneLats == { -33000, -1, 0, 51505 }

ZoneInputs == { [op |-> "getUTMZone", lon |-> l, lat |-> a] : l \in ZoneLons, a \in ZoneLats }

\* the corners of the planar square of side 10
Corners == { <<0, 0>>, <<10, 0>>, <<10, 10>>, <<0, 10>> }

Square == << <<0, 0>>, <<10, 0>>, <<10, 10>>, <<0, 10>> >>

\* the longest vertex list handed to the area operation
MaxAreaLen == 3

SeqsUpTo(S, n) == UNION { [1..k -> S] : k \in 0..n }

AreaInputs ==
  { [op |-> "calculateAreaFromUTM", coords |-> c] : c \in SeqsUpTo(Corners, MaxAreaLen) \cup {Square} }

\* planar polygons of the size of projected ones (units of 100 m), either winding
PlanarPolygons ==
  { << <<0, 0>>, <<5000, 0>>, <<5000, 5000>>, <<0, 5000>> >>,
    << <<5000, 50000>>, <<9000, 52000>>, <<6000, 58000>> >>,
    << <<6000, 58000>>, <<9000, 52000>>, <<5000, 50000>> >>,
    << <<2000, 1000>>, <<7000, 1500>>, <<9000, 6000>>, <<5500, 9000>>, <<1000, 5000>> >> }

\* the mean of the planar vertices
planarMean(utmPositions) ==
  << RoundDiv(SumOf(utmPositions, 1), Len(utmPositions)),
     RoundDiv(SumOf(utmPositions, 2), Len(utmPositions)) >>

ScaleInputs ==
  { [op |-> "scalePlanar", utmPositions |-> Square, centroidUTM |-> <<5, 5>>, targetArea |-> t] :
      t \in {100, 400, 900} }
  \cup
  { [op |-> "scalePlanar", utmPositions |-> u, centroidUTM |-> c, targetArea |-> t] :
      u \in PlanarPolygons,
      c \in { <<5000, 5000>>, <<4000, 52000>> },
      t \in { 5000000, 12345678, 25000000, 40000000 } }
  \cup
  { [op |-> "scalePlanar", utmPositions |-> u, centroidUTM |-> planarMean(u), targetArea |-> t] :
      u \in PlanarPolygons, t \in { 5000000, 12345678, 25000000, 40000000 } }

\* geographic vertex lists <<lat, lon>>: triangles and a quadrilateral a few
\* degrees across, either winding, in both hemispheres; lists of area 0 (one
\* latitude, a repeated vertex, two vertices, one vertex); no vertex at all
GeoPolygons ==
  { << <<45000, 5000>>, <<52000, 0>>, <<40000, 13000>> >>,
    << <<40000, 13000>>, <<52000, 0>>, <<45000, 5000>> >>,
    << <<21000, 4000>>, <<28000, 3000>>, <<26000, 10000>> >>,
    << <<-3000, 7000>>, <<4000, 9000>>, <<-2000, 12000>> >>,
    << <<-30000, 6000>>, <<-30000, 11000>>, <<-36000, 12000>>, <<-35000, 5000>> >>,
    << <<10000, 6000>>, <<10000, 8000>>, <<10000, 11000>> >>,
    << <<10000, 6000>>, <<10000, 6000>>, <<14000, 9000>> >>,
    << <<10000, 6000>>, <<14000, 9000>> >>,
    << <<10000, 6000>> >>,
    << >> }

\* the hemispheres a vertex list is projected in: its own, and both for a list
\* within 5 degrees of the equator
Hemispheres(ps) ==
  IF \A i \in 1..Len(ps) : Abs(ps[i][1]) <= 5 * Deg THEN BOOLEAN ELSE { ps[1][1] >= 0 }

AdjustInputs ==
  UNION { { [op |-> "adjustPolygonToArea", positions |-> ps, targetArea |-> t,
             zone |-> z, isNorth |-> n] :
              t \in { -1, 0, 8000000, 20000000, 31415926 }, z \in { 31, 32 },
              n \in Hemispheres(ps) } : ps \in GeoPolygons }

CallGetUTMZone ==
  /\ fnIn.op = "getUTMZone"
  /\ ~fnOut.done
  /\ fnOut' = [done |-> TRUE, threw |-> FALSE, value |-> getUTMZone(fnIn.lon, fnIn.lat)]
  /\ UNCHANGED <<fnIn, appVars>>

\* no statement of shoelaceArea or calculateAreaFromUTM throws
CallCalculateAreaFromUTM ==
  /\ fnIn.op = "calculateAreaFromUTM"
  /\ ~fnOut.done
  /\ fnOut' = [done |-> TRUE, threw |-> FALSE, value |-> calculateAreaFromUTM(fnIn.coords)]
  /\ UNCHANGED <<fnIn, appVars>>

CallScalePlanar ==
  /\ fnIn.op = "scalePlanar"
  /\ ~fnOut.done
  /\ fnOut' = [done |-> TRUE, threw |-> FALSE,
               value |-> scalePlanar(fnIn.utmPositions, fnIn.centroidUTM, fnIn.targetArea)]
  /\ UNCHANGED <<fnIn, appVars>>

CallAdjustPolygonToArea ==
  /\ fnIn.op = "adjustPolygonToArea"
  /\ ~fnOut.done
  /\ fnOut' =
       IF adjustThrows(fnIn.positions, fnIn.targetArea, fnIn.zone, fnIn.isNorth)
       THEN [done |-> TRUE, threw |-> TRUE, value |-> <<>>]
       ELSE [done |-> TRUE, threw |-> FALSE,
             value |-> adjustPolygonToArea(fnIn.positions, fnIn.targetArea,
                                           fnIn.zone, fnIn.isNorth)]
  /\ UNCHANGED <<fnIn, appVars>>

InitFn ==
  /\ polygons = <<>>
  /\ isDrawing = FALSE
  /\ nextId = 1
  /\ selectedPolygon = Null
  /\ tempPoints = <<>>
  /\ edits = 0
  /\ last = NoDrag
  /\ fnIn \in ZoneInputs \cup AreaInputs \cup ScaleInputs \cup AdjustInputs
  /\ fnOut = FnNotDone

NextFn ==
  \/ CallGetUTMZone
  \/ CallCalculateAreaFromUTM
  \/ CallScalePlanar
  \/ CallAdjustPolygonToArea

SpecFn == InitFn /\ [][NextFn]_vars

(***************************************************************************)
(* Properties                                                              *)
(***************************************************************************)

\* a and b differ by at most 0.1 % of b
WithinTolerance(a, b) == Abs(a - b) <= b \div 1000

ZoneCallDone == fnIn.op = "getUTMZone" /\ fnOut.done

AreaCallDone == fnIn.op = "calculateAreaFromUTM" /\ fnOut.done

ScaleCallDone == fnIn.op = "scalePlanar" /\ fnOut.done

AdjustCallDone == fnIn.op = "adjustPolygonToArea" /\ fnOut.done

\* the planar area of the vertex list of an adjustPolygonToArea call
InputArea == calculateAreaFromUTM(toUTMPositions(fnIn.positions, fnIn.zone, fnIn.isNorth))

\* C2: for every longitude from -180 to 180 degrees, both ends included, and
\* every latitude, getUTMZone returns floor((lon + 180) / 6) + 1 and that zone
\* number lies in 1 .. 60.
C2_ZoneInRange ==
  (ZoneCallDone /\ fnIn.lon >= -180 * Deg /\ fnIn.lon <= 180 * Deg)
    => /\ fnOut.value.zone = ((fnIn.lon + 180 * Deg) \div (6 * Deg)) + 1
       /\ fnOut.value.zone \in 1..60

IsLondon == fnIn.lon = -90 /\ fnIn.lat = 51505

\* C3 as stated: getUTMZone(-0.09, 51.505) returns zone 31 and isNorth = true.
C3_LondonZone31 ==
  (ZoneCallDone /\ IsLondon) => (fnOut.value.zone = 31 /\ fnOut.value.isNorth)

\* C3 amended: getUTMZone(-0.09, 51.505) returns zone 30 and isNorth = true, and
\* isNorth is lat >= 0 for every call, so latitude 0 counts as north.
C3_LondonZone30 ==
  ZoneCallDone =>
    /\ IsLondon => (fnOut.value.zone = 30 /\ fnOut.value.isNorth)
    /\ fnOut.value.isNorth = (fnIn.lat >= 0)
    /\ fnIn.lat = 0 => fnOut.value.isNorth

C3_Witness == ZoneCallDone /\ IsLondon /\ fnOut.value.zone = 30

\* C8: the area operation called with fewer than 3 points fails (with a
\* DegeneratePolygon error) instead of returning a number.
C8_FewPointsFail ==
  (AreaCallDone /\ Len(fnIn.coords) < 3) => fnOut.threw

\* C4: for a polygon of positive planar area and a positive targetArea, the
\* shoelace area of the scaled planar vertices is targetArea (to 0.1 %), and so
\* is the planar area, in the same zone, of the positions adjustPolygonToArea
\* returns; the square (0,0), (10,0), (10,10), (0,10) scaled about (5,5) to
\* area 400 becomes (-5,-5), (15,-5), (15,15), (-5,15).
C4_ScaledAreaIsTarget ==
  /\ (ScaleCallDone /\ calculateAreaFromUTM(fnIn.utmPositions) > 0 /\ fnIn.targetArea > 0)
       => WithinTolerance(shoelaceArea(fnOut.value), fnIn.targetArea)
  /\ (ScaleCallDone /\ fnIn.utmPositions = Square /\ fnIn.centroidUTM = <<5, 5>>)
       => /\ calculateAreaFromUTM(fnIn.utmPositions) = 100
          /\ fnIn.targetArea = 400
               => fnOut.value = << <<-5, -5>>, <<15, -5>>, <<15, 15>>, <<-5, 15>> >>
  /\ (AdjustCallDone /\ ~fnOut.threw /\ InputArea > 0 /\ fnIn.targetArea > 0)
       => WithinTolerance(
            calculateAreaFromUTM(toUTMPositions(fnOut.value, fnIn.zone, fnIn.isNorth)),
            fnIn.targetArea)

C4_Witness ==
  /\ ScaleCallDone
  /\ fnIn.utmPositions = Square
  /\ fnIn.targetArea = 400
  /\ shoelaceArea(fnOut.value) = 400

\* C5 as stated: when the planar area of the input vertices is <= 0, fewer than 3
\* vertices included, adjustPolygonToArea returns its input positions unchanged,
\* for every targetArea and zone.
C5_DegenerateUnchanged ==
  (AdjustCallDone /\ InputArea <= 0) => (~fnOut.threw /\ fnOut.value = fnIn.positions)

\* C5 amended: when the input has at least one vertex and the planar area of its
\* vertices is <= 0 (one or two vertices included), adjustPolygonToArea returns
\* its input positions unchanged, for every targetArea and zone.
C5_NonEmptyDegenerateUnchanged ==
  (AdjustCallDone /\ Len(fnIn.positions) >= 1 /\ InputArea <= 0)
    => (~fnOut.threw /\ fnOut.value = fnIn.positions)

C5_Witness ==
  /\ AdjustCallDone
  /\ Len(fnIn.positions) = 3
  /\ InputArea = 0
  /\ fnIn.targetArea > 0
  /\ fnOut.value = fnIn.positions

\* the planar centroid may move by this much (units of 100 m, so 1 km) and count as kept
CentroidTol == 10

\* C6: for a polygon of positive planar area and a positive targetArea, the mean of
\* the planar vertices of the output of adjustPolygonToArea equals the mean of
\* the planar vertices of its input.
C6_CentroidPreserved ==
  (AdjustCallDone /\ ~fnOut.threw /\ InputArea > 0 /\ fnIn.targetArea > 0)
    => LET before == planarMean(toUTMPositions(fnIn.positions, fnIn.zone, fnIn.isNorth))
           after == planarMean(toUTMPositions(fnOut.value, fnIn.zone, fnIn.isNorth))
       IN /\ Abs(after[1] - before[1]) <= CentroidTol
          /\ Abs(after[2] - before[2]) <= CentroidTol

\* what adjustPolygonToArea makes of vertex i alone: the vertex itself when the
\* planar area is <= 0, else the vertex projected, scaled about the projected
\* centroid and projected back
ImageOfVertex(i) ==
  LET centroid == calculateCentroid(fnIn.positions)
      centroidUTM == reprojectToUTM(centroid[2], centroid[1], fnIn.zone, fnIn.isNorth)
      utm == reprojectToUTM(fnIn.positions[i][2], fnIn.positions[i][1], fnIn.zone, fnIn.isNorth)
      scaleFactor == scaleFactorOf(fnIn.targetArea, InputArea)
      ll == reprojectFromUTM(
              centroidUTM[1] + RoundDiv((utm[1] - centroidUTM[1]) * scaleFactor, SF),
              centroidUTM[2] + RoundDiv((utm[2] - centroidUTM[2]) * scaleFactor, SF),
              fnIn.zone, fnIn.isNorth)
  IN IF InputArea <= 0 THEN fnIn.positions[i] ELSE << ll[2], ll[1] >>

\* C9: adjustPolygonToArea returns as many vertices as it was given, and output
\* vertex i is the image of input vertex i, on the scaling path and on the
\* degenerate path.
C9_SameCountAndOrder ==
  (AdjustCallDone /\ ~fnOut.threw)
    => /\ Len(fnOut.value) = Len(fnIn.positions)
       /\ \A i \in 1..Len(fnIn.positions) : fnOut.value[i] = ImageOfVertex(i)

C9_Witness ==
  /\ AdjustCallDone
  /\ ~fnOut.threw
  /\ Len(fnIn.positions) = 4
  /\ InputArea > 0
  /\ fnIn.targetArea > 0
  /\ fnOut.value # fnIn.positions

\* the last event was a drag-end for a polygon of the list
DragAccepted == last.op = "dragEnd" /\ FindIndex(polygons, last.id) # 0

\* the polygon the last drag-end was for
Dragged == polygons[FindIndex(polygons, last.id)]

\* the planar area of positions in the zone and hemisphere of their own centroid
AreaInOwnZone(positions) ==
  LET centroid == calculateCentroid(positions)
      z == getUTMZone(centroid[2], centroid[1])
  IN calculateAreaFromUTM(toUTMPositions(positions, z.zone, z.isNorth))

\* C1: after an accepted drag-end whose dragged positions have positive planar
\* area, the planar area of the polygon's positions, computed in the zone and
\* hemisphere of the centroid of those positions, is its originalArea (to 0.1 %).
C1_AreaKeptInOwnZone ==
  (DragAccepted /\ AreaInOwnZone(last.newPositions) > 0)
    => WithinTolerance(AreaInOwnZone(Dragged.positions), Dragged.originalArea)

\* polygon p of this state and polygon q of the next are the same polygon
SamePolygon(p, q) == p.id = q.id

\* C7 as stated: while a polygon is in the list its originalArea, utmZone and
\* isNorth stay what they were; only its positions change.
C7_AreaAndZoneFixed ==
  [][\A i \in 1..Len(polygons), j \in 1..Len(polygons') :
       SamePolygon(polygons[i], polygons'[j])
         => /\ polygons'[j].originalArea = polygons[i].originalArea
            /\ polygons'[j].utmZone = polygons[i].utmZone
            /\ polygons'[j].isNorth = polygons[i].isNorth]_vars

\* C7 amended: while a polygon is in the list its originalArea stays what it was;
\* a drag-end for it sets its utmZone and isNorth to the zone and hemisphere of
\* the centroid of the dragged positions, and no other event changes them.
C7_AreaFixedZoneFollowsDrag ==
  [][\A i \in 1..Len(polygons), j \in 1..Len(polygons') :
       SamePolygon(polygons[i], polygons'[j])
         => /\ polygons'[j].originalArea = polygons[i].originalArea
            /\ IF last'.op = "dragEnd" /\ last'.id = polygons[i].id
               THEN LET c == calculateCentroid(last'.newPositions)
                        z == getUTMZone(c[2], c[1])
                    IN /\ polygons'[j].utmZone = z.zone
                       /\ polygons'[j].isNorth = z.isNorth
               ELSE /\ polygons'[j].utmZone = polygons[i].utmZone
                    /\ polygons'[j].isNorth = polygons[i].isNorth]_vars

C7_Witness ==
  /\ DragAccepted
  /\ edits = 2
  /\ Dragged.originalArea > 0
  /\ Dragged.positions # last.newPositions

\* C10: a drag-end for polygon id k changes only the record with id k: every other
\* polygon keeps its id, positions, originalArea, utmZone and isNorth, the list
\* keeps its length and order, and a drag-end for an id that is not in the list
\* changes nothing.
C10_DragChangesOnlyItsPolygon ==
  [][last'.op = "dragEnd"
       => /\ Len(polygons') = Len(polygons)
          /\ \A i \in 1..Len(polygons) :
               /\ polygons'[i].id = polygons[i].id
               /\ polygons[i].id # last'.id => polygons'[i] = polygons[i]
          /\ FindIndex(polygons, last'.id) = 0
               => UNCHANGED <<polygons, nextId, isDrawing, selectedPolygon, tempPoints>>]_vars

C10_Witness ==
  /\ DragAccepted
  /\ Len(polygons) = 2
  /\ Dragged.positions # last.newPositions

====
